---- MODULE Spec2Model ----
(***************************************************************************)
(* MultiExchangeArbEngine: flash-loan multi-hop arbitrage engine.          *)
(* The contract's storage, its external functions and the lender / venue   *)
(* collaborators that drive one arbitrage cycle, as a state machine.       *)
(* A transaction that reverts restores the storage it started from; the    *)
(* positions at which an external contract holds control (the lender       *)
(* before and after its callback, a venue during a swap) are states, so    *)
(* re-entrant calls into the engine are steps of the model.                *)
(***************************************************************************)
EXTENDS Integers, Sequences, FiniteSets, TLC

(* ---------------------------- bounds ----------------------------------- *)
MaxExchanges == 1      \* exchangeRouters.push is modelled up to this length
MaxRegistry == 2       \* ... and up to this length where only the registry is explored
MaxPathKeys == 2       \* pathKeys.push is modelled up to this length
MaxBalance == 1        \* balance a venue may leave the engine with, beyond the debt
MaxDepth == 2          \* nesting depth of startArbitrage calls that is explored

(* ---------------------------- identities ------------------------------- *)
Owner == "owner"
Other == "other"
Engine == "engine"
Pool == "aavePool"
Callers == {Owner, Other}
Tokens == {1, 2, 3}
Amounts == {1}         \* loan amounts the caller asks for
Premiums == {0, 1}     \* premiums the lender states
Timestamps == {1}      \* block.timestamp of the transaction
Venues == { [routerAddress |-> "routerA", name |-> "ExchangeA"],
            [routerAddress |-> "routerB", name |-> "ExchangeB"] }
Routers == {v.routerAddress : v \in Venues}
Spenders == Routers \cup {Pool}

(* OpenZeppelin ReentrancyGuard status values *)
NOT_ENTERED == 1
ENTERED == 2

(* revert reasons *)
ErrNotOwner == "Ownable: caller is not the owner"
ErrReentrant == "ReentrancyGuard: reentrant call"
ErrInvalidIndex == "Invalid exchange index"
ErrPathTooShort == "Path must have at least 2 tokens"
ErrHopMismatch == "Exchange indexes must match path transitions"
ErrExchangeInactive == "Exchange not active"
ErrPathNotFound == "Path does not exist"
ErrPathInactive == "Path not active"
ErrNotPool == "Caller must be Aave pool"
ErrInitiator == "Initiator must be this contract"
ErrNoProfit == "Arbitrage did not yield profit"
ErrNoBalance == "No balance to withdraw"
ErrSwapFailed == "swap reverted"
ErrLenderFailed == "flash loan reverted"
ErrPanic == "panic 0x11"          \* checked arithmetic overflowed

(* ---------------------------- path keys -------------------------------- *)
(* keccak256(abi.encode(_path, _exchangeIndexes)): an injective fingerprint *)
(* of the two sequences.  Each sequence is encoded in radix KeyBase with    *)
(* non-zero digits, so the length is part of the encoding.                  *)
KeyBase == MaxExchanges + Cardinality(Tokens) + 2   \* above every encoded digit

Range(s) == {s[i] : i \in 1..Len(s)}

RECURSIVE EncodeSeq(_)
EncodeSeq(s) ==
    IF s = <<>> THEN 0 ELSE (Head(s) + 1) + KeyBase * EncodeSeq(Tail(s))

KeySplit == KeyBase * KeyBase * KeyBase * KeyBase

PathKeyOf(path, exchangeIndexes) ==
    EncodeSeq(path) * KeySplit + EncodeSeq(exchangeIndexes)

(* the (path, exchangeIndexes) arguments that callers try *)
PathInputs ==
    { <<(<<1, 2, 1>>), (<<0, 0>>)>>,              \* closed route
      <<(<<1, 2>>), (<<0>>)>>,                    \* open route
      <<(<<1>>), (<<>>)>>,                        \* fewer than two tokens
      <<(<<1, 2>>), (<<>>)>>,                     \* hop count mismatch
      <<(<<1, 2, 1>>), (<<0, MaxExchanges>>)>> }  \* index never registered

UnknownKey == 0
(* two closed routes with different first tokens, sharing the middle one *)
LedgerPathInputs ==
    { <<(<<1, 2, 1>>), (<<0, 0>>)>>,
      <<(<<3, 2, 3>>), (<<0, 0>>)>> }

LedgerKeys == {PathKeyOf(p[1], p[2]) : p \in LedgerPathInputs}

KeySpace ==
    {PathKeyOf(p[1], p[2]) : p \in PathInputs \cup LedgerPathInputs} \cup {UnknownKey}

(* the keys that callers pass: those of the well-formed routes and one that *)
(* no route hashes to                                                       *)
KeyInputs ==
    {PathKeyOf(p[1], p[2]) : p \in {q \in PathInputs :
         Len(q[1]) >= 2 /\ Len(q[2]) = Len(q[1]) - 1 /\ MaxExchanges \notin Range(q[2])}}
    \cup {UnknownKey}

ZeroPath == [path |-> <<>>, exchangeIndexes |-> <<>>, active |-> FALSE]

(* ---------------------------- state ------------------------------------ *)
VARIABLES
    exchangeRouters,   \* ExchangeRouter[]: sequence of [routerAddress, name, active]
    arbitragePaths,    \* mapping(bytes32 => ArbitragePath), total with zero default
    pathKeys,          \* bytes32[]
    status,            \* ReentrancyGuard._status
    balances,          \* IERC20(token).balanceOf(address(this))
    ownerReceived,     \* tokens the current / most recent transaction sent to owner()
    allowances,        \* IERC20(token).allowance(address(this), spender)
    events,            \* logs emitted by the current / most recent transaction
    frames,            \* startArbitrage calls in flight, innermost last
    lastCall,          \* outcome of the most recent call into the engine
    monitor            \* the monitoring script: its position and what it has read

(* the contract and its calls *)
engineVars == <<exchangeRouters, arbitragePaths, pathKeys, status, balances,
                ownerReceived, allowances, events, frames, lastCall>>

vars == <<exchangeRouters, arbitragePaths, pathKeys, status, balances,
          ownerReceived, allowances, events, frames, lastCall, monitor>>

NoneReceived == [t \in Tokens |-> 0]

(* everything a revert restores *)
Store ==
    [exchangeRouters |-> exchangeRouters, arbitragePaths |-> arbitragePaths,
     pathKeys |-> pathKeys, status |-> status, balances |-> balances,
     ownerReceived |-> ownerReceived, allowances |-> allowances,
     events |-> events]

(* what a call hands back: its outcome and, for a function with a return *)
(* value, the value (0 where there is none)                              *)
ReturnsValue(op, result, value) == [op |-> op, result |-> result, value |-> value]
Returns(op, result) == ReturnsValue(op, result, 0)

Init ==
    /\ exchangeRouters = <<>>
    /\ arbitragePaths = [k \in KeySpace |-> ZeroPath]
    /\ pathKeys = <<>>
    /\ status = NOT_ENTERED
    /\ balances = [t \in Tokens |-> 0]
    /\ ownerReceived = NoneReceived
    /\ allowances = [s \in Spenders |-> [t \in Tokens |-> 0]]
    /\ events = <<>>
    /\ frames = <<>>
    /\ lastCall = Returns("constructor", "ok")
    /\ monitor = [pc |-> "connect", keys |-> <<>>, index |-> 1, active |-> FALSE,
                  loanAmount |-> 0, expectedProfit |-> 0]

(* ---------------------------- call plumbing ---------------------------- *)
Idle == frames = <<>>
Top == frames[Len(frames)]

(* an external contract (or nobody) holds control: calls into the engine can arrive *)
ExternalControl ==
    IF Idle THEN TRUE ELSE Top.pc \in {"LoanRequested", "InVenue", "Settling"}

(* the receipt the call writes to: a top-level call opens a new transaction *)
TxLog == IF Idle THEN <<>> ELSE events
TxReceived == IF Idle THEN NoneReceived ELSE ownerReceived

(* a call that reverts before any external interaction: nothing is written *)
Fail(op, err) ==
    /\ lastCall' = Returns(op, err)
    /\ events' = TxLog
    /\ ownerReceived' = TxReceived
    /\ UNCHANGED <<exchangeRouters, arbitragePaths, pathKeys, status, balances,
                   allowances, frames>>

(* a FlashLoanExecuted that carries no amount *)
FlashLoanExecutedNoAmount(token, amount) ==
    [name |-> "FlashLoanExecuted", token |-> token, amount |-> 0]

(* event FlashLoanExecuted(address indexed token, uint256 amount) *)
FlashLoanExecuted(token, amount) ==
    [name |-> "FlashLoanExecuted", token |-> token, amount |-> amount]

(* event ArbitrageExecuted(bytes32 indexed pathKey, uint256 profit) *)
ArbitrageExecuted(pathKey, profit) ==
    [name |-> "ArbitrageExecuted", pathKey |-> pathKey, profit |-> profit]

(* a modifier that lets every caller through *)
onlyOwnerOff(caller) == TRUE

(* Ownable.onlyOwner *)
onlyOwner(caller) == caller = Owner

(* ---------------------------- exchange registry ------------------------ *)
getExchangeCount == Len(exchangeRouters)

(* an update that keeps the descriptor's name *)
updateExchangeKeepsName(caller, index, venue, active) ==
    /\ Idle
    /\ IF ~(caller = Owner)
       THEN Fail("updateExchange", ErrNotOwner)
       ELSE IF ~(index < Len(exchangeRouters))
       THEN Fail("updateExchange", ErrInvalidIndex)
       ELSE /\ exchangeRouters' = [exchangeRouters EXCEPT ![index + 1] =
                   [routerAddress |-> venue.routerAddress,
                    name |-> exchangeRouters[index + 1].name, active |-> active]]
            /\ events' = <<>>
            /\ lastCall' = Returns("updateExchange", "ok")
            /\ ownerReceived' = TxReceived
            /\ UNCHANGED <<arbitragePaths, pathKeys, status, balances,
                           allowances, frames>>

(* an update that also switches off the paths routed through the exchange *)
updateExchangeCascade(caller, index, venue, active) ==
    /\ Idle
    /\ IF ~(caller = Owner)
       THEN Fail("updateExchange", ErrNotOwner)
       ELSE IF ~(index < Len(exchangeRouters))
       THEN Fail("updateExchange", ErrInvalidIndex)
       ELSE /\ exchangeRouters' = [exchangeRouters EXCEPT ![index + 1] =
                   [routerAddress |-> venue.routerAddress, name |-> venue.name,
                    active |-> active]]
            /\ arbitragePaths' = [k \in KeySpace |->
                   IF ~active /\ \E h \in 1..Len(arbitragePaths[k].exchangeIndexes) :
                                     arbitragePaths[k].exchangeIndexes[h] = index
                   THEN [arbitragePaths[k] EXCEPT !.active = FALSE]
                   ELSE arbitragePaths[k]]
            /\ events' = <<>>
            /\ lastCall' = Returns("updateExchange", "ok")
            /\ ownerReceived' = TxReceived
            /\ UNCHANGED <<pathKeys, status, balances, allowances, frames>>

(* a registration that puts the new descriptor in front of the others *)
addExchangeInFront(caller, venue) ==
    /\ Idle
    /\ IF ~onlyOwner(caller)
       THEN Fail("addExchange", ErrNotOwner)
       ELSE /\ exchangeRouters' = <<[routerAddress |-> venue.routerAddress,
                                     name |-> venue.name, active |-> TRUE]>>
                                   \o exchangeRouters
            /\ events' = <<[name |-> "ExchangeAdded", index |-> Len(exchangeRouters),
                            router |-> venue.routerAddress, exname |-> venue.name]>>
            /\ lastCall' = Returns("addExchange", "ok")
            /\ ownerReceived' = TxReceived
            /\ UNCHANGED <<arbitragePaths, pathKeys, status, balances,
                           allowances, frames>>

addExchange(caller, venue) ==
    /\ Idle
    /\ IF ~onlyOwner(caller)
       THEN Fail("addExchange", ErrNotOwner)
       ELSE /\ exchangeRouters' = Append(exchangeRouters,
                   [routerAddress |-> venue.routerAddress, name |-> venue.name,
                    active |-> TRUE])
            /\ events' = <<[name |-> "ExchangeAdded", index |-> Len(exchangeRouters),
                            router |-> venue.routerAddress, exname |-> venue.name]>>
            /\ lastCall' = Returns("addExchange", "ok")
            /\ ownerReceived' = TxReceived
            /\ UNCHANGED <<arbitragePaths, pathKeys, status, balances,
                           allowances, frames>>

updateExchange(caller, index, venue, active) ==
    /\ Idle
    /\ IF ~onlyOwner(caller)
       THEN Fail("updateExchange", ErrNotOwner)
       ELSE IF ~(index < Len(exchangeRouters))
       THEN Fail("updateExchange", ErrInvalidIndex)
       ELSE /\ exchangeRouters' = [exchangeRouters EXCEPT ![index + 1] =
                   [routerAddress |-> venue.routerAddress, name |-> venue.name,
                    active |-> active]]
            /\ events' = <<>>
            /\ lastCall' = Returns("updateExchange", "ok")
            /\ ownerReceived' = TxReceived
            /\ UNCHANGED <<arbitragePaths, pathKeys, status, balances,
                           allowances, frames>>

(* ---------------------------- path registry -------------------------- *)
getArbitragePathCount == Len(pathKeys)

(* a getter that reports every record as active *)
getArbitragePathAlwaysActive(pathKey) ==
    <<arbitragePaths[pathKey].path, arbitragePaths[pathKey].exchangeIndexes, TRUE>>

getArbitragePath(pathKey) ==
    <<arbitragePaths[pathKey].path, arbitragePaths[pathKey].exchangeIndexes,
      arbitragePaths[pathKey].active>>

(* the loop without its second require: inactive exchanges are accepted *)
RECURSIVE HopErrorSkipsActive(_)
HopErrorSkipsActive(exchangeIndexes) ==
    IF exchangeIndexes = <<>> THEN ""
    ELSE IF ~(Head(exchangeIndexes) < Len(exchangeRouters)) THEN ErrInvalidIndex
    ELSE HopErrorSkipsActive(Tail(exchangeIndexes))

(* the loop of addArbitragePath: the first failing require, "" when none fails *)
RECURSIVE HopError(_)
HopError(exchangeIndexes) ==
    IF exchangeIndexes = <<>> THEN ""
    ELSE IF ~(Head(exchangeIndexes) < Len(exchangeRouters)) THEN ErrInvalidIndex
    ELSE IF ~exchangeRouters[Head(exchangeIndexes) + 1].active THEN ErrExchangeInactive
    ELSE HopError(Tail(exchangeIndexes))

(* a registration that keeps the flag of a record already stored *)
storedPathKeepsFlag(pathKey, path, exchangeIndexes) ==
    [path |-> path, exchangeIndexes |-> exchangeIndexes,
     active |-> IF Len(arbitragePaths[pathKey].path) > 0
                THEN arbitragePaths[pathKey].active ELSE TRUE]

(* the struct addArbitragePath writes to arbitragePaths[pathKey] *)
storedPath(pathKey, path, exchangeIndexes) ==
    [path |-> path, exchangeIndexes |-> exchangeIndexes, active |-> TRUE]

addArbitragePath(caller, path, exchangeIndexes) ==
    /\ Idle
    /\ LET pathKey == PathKeyOf(path, exchangeIndexes) IN
       IF ~onlyOwner(caller)
       THEN Fail("addArbitragePath", ErrNotOwner)
       ELSE IF ~(Len(path) >= 2)
       THEN Fail("addArbitragePath", ErrPathTooShort)
       ELSE IF ~(Len(path) - 1 = Len(exchangeIndexes))
       THEN Fail("addArbitragePath", ErrHopMismatch)
       ELSE IF HopError(exchangeIndexes) # ""
       THEN Fail("addArbitragePath", HopError(exchangeIndexes))
       ELSE /\ Len(pathKeys) < MaxPathKeys
            /\ arbitragePaths' = [arbitragePaths EXCEPT ![pathKey] =
                   storedPath(pathKey, path, exchangeIndexes)]
            /\ pathKeys' = Append(pathKeys, pathKey)
            /\ events' = <<[name |-> "ArbitragePathAdded", pathKey |-> pathKey,
                            path |-> path, exchangeIndexes |-> exchangeIndexes]>>
            /\ lastCall' = Returns("addArbitragePath", "ok")
            /\ ownerReceived' = TxReceived
            /\ UNCHANGED <<exchangeRouters, status, balances, allowances, frames>>

(* an update without the existence check: it writes the flag of any key *)
updateArbitragePathUnchecked(caller, pathKey, active) ==
    /\ Idle
    /\ IF ~(caller = Owner)
       THEN Fail("updateArbitragePath", ErrNotOwner)
       ELSE /\ arbitragePaths' = [arbitragePaths EXCEPT ![pathKey].active = active]
            /\ events' = <<>>
            /\ lastCall' = Returns("updateArbitragePath", "ok")
            /\ ownerReceived' = TxReceived
            /\ UNCHANGED <<exchangeRouters, pathKeys, status, balances,
                           allowances, frames>>

(* an update that deletes the record when the path is switched off *)
updateArbitragePathDeletes(caller, pathKey, active) ==
    /\ Idle
    /\ IF ~(caller = Owner)
       THEN Fail("updateArbitragePath", ErrNotOwner)
       ELSE IF ~(Len(arbitragePaths[pathKey].path) > 0)
       THEN Fail("updateArbitragePath", ErrPathNotFound)
       ELSE /\ arbitragePaths' = [arbitragePaths EXCEPT ![pathKey] =
                   IF active THEN [@ EXCEPT !.active = TRUE] ELSE ZeroPath]
            /\ events' = <<>>
            /\ lastCall' = Returns("updateArbitragePath", "ok")
            /\ ownerReceived' = TxReceived
            /\ UNCHANGED <<exchangeRouters, pathKeys, status, balances,
                           allowances, frames>>

updateArbitragePath(caller, pathKey, active) ==
    /\ Idle
    /\ IF ~onlyOwner(caller)
       THEN Fail("updateArbitragePath", ErrNotOwner)
       ELSE IF ~(Len(arbitragePaths[pathKey].path) > 0)
       THEN Fail("updateArbitragePath", ErrPathNotFound)
       ELSE /\ arbitragePaths' = [arbitragePaths EXCEPT ![pathKey].active = active]
            /\ events' = <<>>
            /\ lastCall' = Returns("updateArbitragePath", "ok")
            /\ ownerReceived' = TxReceived
            /\ UNCHANGED <<exchangeRouters, pathKeys, status, balances,
                           allowances, frames>>

(* ---------------------------- simulation ------------------------------- *)
(* the value simulateArbitrage returns: _amount / 100 *)
expectedProfit(amount) == amount \div 100

(* the two requires without the second: a switched-off path is simulated *)
simulateOutcomeSkipsActive(pathKey) ==
    IF ~(Len(arbitragePaths[pathKey].path) > 0) THEN ErrPathNotFound ELSE "ok"

(* the outcome of simulateArbitrage's two requires *)
simulateOutcome(pathKey) ==
    IF ~(Len(arbitragePaths[pathKey].path) > 0) THEN ErrPathNotFound
    ELSE IF ~arbitragePaths[pathKey].active THEN ErrPathInactive
    ELSE "ok"

(* a simulation that books the simulated route as switched off *)
simulateArbitrageWrites(caller, pathKey, amount) ==
    /\ Idle
    /\ lastCall' = Returns("simulateArbitrage", simulateOutcome(pathKey))
    /\ arbitragePaths' = [arbitragePaths EXCEPT ![pathKey].active = FALSE]
    /\ UNCHANGED <<exchangeRouters, pathKeys, status, balances, ownerReceived,
                   allowances, events, frames>>

(* uint256, scaled to a width the amounts of the model can exceed *)
UintBits == 16
UintMax == 2^UintBits - 1

(* checked multiplication (Solidity 0.8): the product does not fit the type *)
mulOverflows(a, b) == a * b > UintMax

(* the amounts simulateArbitrage is asked about: around the first positive *)
(* estimate, around the largest amount whose ninefold fits, and the maximum *)
SimAmounts == {0, 99, 100, UintMax \div 9, UintMax \div 9 + 1, UintMax}

(* the body of simulateArbitrage after its requires: flashLoanPremium =   *)
(* (_amount * 9) / 10000 is computed, then _amount / 100 is returned      *)
simulateReturn(amount) ==
    IF mulOverflows(amount, 9)
    THEN Returns("simulateArbitrage", ErrPanic)
    ELSE ReturnsValue("simulateArbitrage", "ok", expectedProfit(amount))

(* a view function: any caller, no transaction, nothing written *)
simulateArbitrage(caller, pathKey, amount) ==
    /\ Idle
    /\ lastCall' = IF simulateOutcome(pathKey) # "ok"
                   THEN Returns("simulateArbitrage", simulateOutcome(pathKey))
                   ELSE simulateReturn(amount)
    /\ UNCHANGED <<exchangeRouters, arbitragePaths, pathKeys, status, balances,
                   ownerReceived, allowances, events, frames>>

(* ---------------------------- withdrawal ------------------------------- *)
(* a guard that never rejects *)
nonReentrantOff == TRUE

(* ReentrancyGuard.nonReentrant: the entry check *)
nonReentrant == status # ENTERED

(* a balance check that lets an empty balance through *)
hasBalanceOrNone(balance) == balance >= 0

(* require(balance > 0, ...) *)
hasBalance(balance) == balance > 0

withdraw(caller, token) ==
    /\ ExternalControl
    /\ IF ~onlyOwner(caller)
       THEN Fail("withdraw", ErrNotOwner)
       ELSE IF ~nonReentrant
       THEN Fail("withdraw", ErrReentrant)
       ELSE IF ~hasBalance(balances[token])
       THEN Fail("withdraw", ErrNoBalance)
       ELSE /\ balances' = [balances EXCEPT ![token] = 0]
            /\ ownerReceived' = [TxReceived EXCEPT ![token] = @ + balances[token]]
            /\ events' = Append(TxLog, [name |-> "FundsWithdrawn", token |-> token,
                                        amount |-> balances[token]])
            /\ lastCall' = Returns("withdraw", "ok")
            /\ UNCHANGED <<exchangeRouters, arbitragePaths, pathKeys, status,
                           allowances, frames>>

(* ---------------------------- arbitrage cycle -------------------------- *)
(* a failure path that undoes everything but the token movements *)
RollbackKeepsTokens(s) ==
    /\ exchangeRouters' = s.exchangeRouters
    /\ arbitragePaths' = s.arbitragePaths
    /\ pathKeys' = s.pathKeys
    /\ status' = s.status
    /\ ownerReceived' = s.ownerReceived
    /\ events' = s.events
    /\ UNCHANGED <<balances, allowances>>

(* the transaction (or nested call) reverts: storage returns to the snapshot *)
Rollback(s) ==
    /\ exchangeRouters' = s.exchangeRouters
    /\ arbitragePaths' = s.arbitragePaths
    /\ pathKeys' = s.pathKeys
    /\ status' = s.status
    /\ balances' = s.balances
    /\ ownerReceived' = s.ownerReceived
    /\ allowances' = s.allowances
    /\ events' = s.events

(* a failure inside the cycle: the innermost startArbitrage call reverts *)
Revert(err) ==
    /\ Rollback(Top.snapshot)
    /\ frames' = SubSeq(frames, 1, Len(frames) - 1)
    /\ lastCall' = Returns("startArbitrage", err)

SetTop(f) == [frames EXCEPT ![Len(frames)] = f]

(* the two requires without the second: a switched-off path is accepted *)
pathErrorSkipsActive(path) ==
    IF ~(Len(path.path) > 0) THEN ErrPathNotFound ELSE ""

(* startArbitrage's two requires on the path: the first that fails, "" when none *)
pathError(path) ==
    IF ~(Len(path.path) > 0) THEN ErrPathNotFound
    ELSE IF ~path.active THEN ErrPathInactive
    ELSE ""

(* a loan of the route's last token *)
loanAssetLast(path) == path.path[Len(path.path)]

(* the asset argument of flashLoanSimple: path.path[0] *)
loanAsset(path) == path.path[1]

startArbitrage(caller, pathKey, amount) ==
    /\ ExternalControl
    /\ LET path == arbitragePaths[pathKey] IN
       IF ~onlyOwner(caller)
       THEN Fail("startArbitrage", ErrNotOwner)
       ELSE IF ~nonReentrant
       THEN Fail("startArbitrage", ErrReentrant)
       ELSE IF pathError(path) # ""
       THEN Fail("startArbitrage", pathError(path))
       ELSE /\ Len(frames) < MaxDepth
            /\ status' = ENTERED
            /\ events' = TxLog
            /\ \E now \in Timestamps :
               frames' = Append(frames,
                   [pathKey |-> pathKey, caller |-> caller, receiver |-> Engine,
                    asset |-> loanAsset(path), amount |-> amount, premium |-> 0,
                    timestamp |-> now, hop |-> 0,
                    router |-> "", amountIn |-> 0, amountOutMin |-> 0,
                    swapPath |-> <<>>, to |-> "", deadline |-> 0,
                    pc |-> "LoanRequested",
                    snapshot |-> [Store EXCEPT !.events = TxLog,
                                                !.ownerReceived = TxReceived]])
            /\ lastCall' = Returns("startArbitrage", "pending")
            /\ ownerReceived' = TxReceived
            /\ UNCHANGED <<exchangeRouters, arbitragePaths, pathKeys, balances,
                           allowances>>

(* a sender check that lets every caller through *)
isPoolOff(sender) == TRUE

(* msg.sender == address(aavePool) *)
isPool(sender) == sender = Pool

(* the lender transfers the loan and calls back; executeOperation's entry checks *)
executeOperation(sender, initiator, premium) ==
    /\ ~Idle
    /\ Top.pc = "LoanRequested"
    /\ IF ~isPool(sender) THEN Revert(ErrNotPool)
       ELSE IF ~(initiator = Engine) THEN Revert(ErrInitiator)
       ELSE /\ balances' = [balances EXCEPT ![Top.asset] = @ + Top.amount]
            /\ frames' = SetTop([Top EXCEPT !.premium = premium,
                                            !.pc = "SwapChainRunning"])
            /\ lastCall' = Returns("startArbitrage", "pending")
            /\ UNCHANGED <<exchangeRouters, arbitragePaths, pathKeys, status,
                           ownerReceived, allowances, events>>

(* the amountOutMin argument of swapExactTokensForTokens *)
AmountOutMin == 0

(* the seconds added to block.timestamp for the deadline argument *)
DeadlineWindow == 300

(* a deadline that is the time of the request *)
deadlineNow(timestamp) == timestamp

(* the deadline argument: block.timestamp + 300 *)
deadlineOf(timestamp) == timestamp + DeadlineWindow

(* a venue fixed once and for all *)
routerAtFirst(exchangeIndex) == "routerA"

(* exchangeRouters[exchangeIndex].routerAddress, read when the hop is executed *)
routerAt(exchangeIndex) == exchangeRouters[exchangeIndex + 1].routerAddress

(* an output token taken from outside the route *)
hopOutputElsewhere(path, i) == CHOOSE t \in Tokens : t \notin Range(path.path)

(* toToken = path.path[i + 1] *)
hopOutput(path, i) == path.path[i + 1]

(* a swap of the borrowed amount only *)
loanOnly(token) == Top.amount

(* amountToSwap: the entire balance of the hop's input token *)
entireBalance(token) == balances[token]

(* one iteration of the loop up to the call of swapExactTokensForTokens *)
swapRequest ==
    /\ ~Idle
    /\ Top.pc = "SwapChainRunning"
    /\ LET path == arbitragePaths[Top.pathKey]
           i == Top.hop + 1 IN
       /\ Top.hop < Len(path.exchangeIndexes)
       /\ LET fromToken == path.path[i]
              toToken == hopOutput(path, i)
              routerAddress == routerAt(path.exchangeIndexes[i])
              amountToSwap == entireBalance(fromToken) IN
          /\ allowances' = [allowances EXCEPT ![routerAddress][fromToken] = amountToSwap]
          /\ frames' = SetTop([Top EXCEPT !.router = routerAddress,
                                          !.amountIn = amountToSwap,
                                          !.amountOutMin = AmountOutMin,
                                          !.swapPath = <<fromToken, toToken>>,
                                          !.to = Engine,
                                          !.deadline = deadlineOf(Top.timestamp),
                                          !.pc = "InVenue"])
    /\ lastCall' = Returns("startArbitrage", "pending")
    /\ UNCHANGED <<exchangeRouters, arbitragePaths, pathKeys, status, balances,
                   ownerReceived, events>>

(* a loop that steps over a hop *)
nextHopSkips(i) == i + 2

(* the loop's i++ *)
nextHop(i) == i + 1

(* what a venue may pay: every amount the balance cap of venueReturn admits *)
AmountsOut == 0..(MaxBalance + 2)

(* the venue pulls amountIn of fromToken, pays amountOut of toToken and returns *)
venueReturn(amountOut) ==
    /\ ~Idle
    /\ Top.pc = "InVenue"
    /\ LET fromToken == Top.swapPath[1]
           toToken == Top.swapPath[2]
           pulled == [balances EXCEPT ![fromToken] = @ - Top.amountIn]
           paid == [pulled EXCEPT ![toToken] = @ + amountOut] IN
       /\ allowances[Top.router][fromToken] >= Top.amountIn
       /\ balances[fromToken] >= Top.amountIn
       /\ amountOut >= Top.amountOutMin
       /\ Top.deadline >= Top.timestamp
       /\ paid[toToken] <= MaxBalance
              + (IF toToken = Top.asset THEN Top.amount + Top.premium ELSE 0)
       /\ balances' = paid
       /\ allowances' = [allowances EXCEPT ![Top.router][fromToken] = @ - Top.amountIn]
       /\ frames' = SetTop([Top EXCEPT !.hop = nextHop(@), !.pc = "SwapChainRunning"])
    /\ lastCall' = Returns("startArbitrage", "pending")
    /\ UNCHANGED <<exchangeRouters, arbitragePaths, pathKeys, status,
                   ownerReceived, events>>

(* the venue reverts (deadline passed, pair missing, ...) *)
venueFail ==
    /\ ~Idle
    /\ Top.pc = "InVenue"
    /\ Revert(ErrSwapFailed)

(* a debt without the premium *)
totalDebtNoPremium(amount, premium) == amount

(* totalDebt = amount + premium *)
totalDebtOf(amount, premium) == amount + premium

(* a strict comparison in the debt check *)
exceedsDebt(finalBalance, totalDebt) == finalBalance > totalDebt

(* require(finalBalance >= totalDebt, ...) *)
coversDebt(finalBalance, totalDebt) == finalBalance >= totalDebt

(* what the venues of a direct callback do, hop by hop: pay an amount or revert *)
VenueReverts == 0 - 1
VenueOutcomes == [1..2 -> (0..MaxBalance) \cup {VenueReverts}]

(* the loop of executeOperation from hop i on: each swap takes the entire *)
(* balance of its input token and the venue pays outs[i] of the output    *)
RECURSIVE swapChain(_, _, _, _)
swapChain(bal, path, i, outs) ==
    IF i > Len(path.exchangeIndexes) THEN bal
    ELSE LET fromToken == path.path[i]
             toToken == hopOutput(path, i)
             amountToSwap == bal[fromToken]
             pulled == [bal EXCEPT ![fromToken] = @ - amountToSwap]
             paid == [pulled EXCEPT ![toToken] = @ + outs[i]] IN
         swapChain(paid, path, i + 1, outs)

(* executeOperation called while no startArbitrage is executing, the whole *)
(* handler in one step: the two requires, the loop over the path decoded   *)
(* from params, the debt check against the stated amount and premium, the  *)
(* approval of the pool and ArbitrageExecuted                              *)
executeOperationDirect(sender, initiator, asset, amount, premium, pathKey, outs) ==
    /\ Idle
    /\ LET path == arbitragePaths[pathKey]
           hops == 1..Len(path.exchangeIndexes)
           totalDebt == totalDebtOf(amount, premium)
           final == swapChain(balances, path, 1, outs)
           finalBalance == final[asset] IN
       IF ~isPool(sender)
       THEN Fail("executeOperation", ErrNotPool)
       ELSE IF ~(initiator = Engine)
       THEN Fail("executeOperation", ErrInitiator)
       ELSE IF \E i \in hops : outs[i] = VenueReverts
       THEN Fail("executeOperation", ErrSwapFailed)
       ELSE IF ~coversDebt(finalBalance, totalDebt)
       THEN Fail("executeOperation", ErrNoProfit)
       ELSE /\ \A t \in Tokens : final[t] <= MaxBalance
            /\ balances' = final
            /\ allowances' = [allowances EXCEPT ![Pool][asset] = totalDebt]
            /\ events' = <<ArbitrageExecuted(pathKey, finalBalance - totalDebt)>>
            /\ lastCall' = Returns("executeOperation", "ok")
            /\ ownerReceived' = TxReceived
            /\ UNCHANGED <<exchangeRouters, arbitragePaths, pathKeys, status, frames>>

(* a callback from an identity that is not the pool: whatever it states, *)
(* the first require rejects it, so one choice of arguments stands for all *)
strangerCallback(sender, initiator) ==
    executeOperationDirect(sender, initiator, 1, 1, 0, UnknownKey, [h \in 1..2 |-> 0])

(* a callback from the given sender while no loan is being served, with *)
(* whatever arguments the sender states                                 *)
unsolicitedCallback(sender, initiator) ==
    \E asset \in Tokens, amount \in Amounts, premium \in Premiums,
       k \in KeyInputs, outs \in VenueOutcomes :
        executeOperationDirect(sender, initiator, asset, amount, premium, k, outs)

(* after the loop: debt check, repayment approval, ArbitrageExecuted, return true *)
settle ==
    /\ ~Idle
    /\ Top.pc = "SwapChainRunning"
    /\ Top.hop = Len(arbitragePaths[Top.pathKey].exchangeIndexes)
    /\ LET totalDebt == totalDebtOf(Top.amount, Top.premium)
           finalBalance == balances[Top.asset] IN
       IF ~coversDebt(finalBalance, totalDebt)
       THEN Revert(ErrNoProfit)
       ELSE /\ allowances' = [allowances EXCEPT ![Pool][Top.asset] = totalDebt]
            /\ events' = Append(events,
                   ArbitrageExecuted(Top.pathKey, finalBalance - totalDebt))
            /\ frames' = SetTop([Top EXCEPT !.pc = "Settling"])
            /\ lastCall' = Returns("startArbitrage", "pending")
            /\ UNCHANGED <<exchangeRouters, arbitragePaths, pathKeys, status,
                           balances, ownerReceived>>

(* a guard that is left set *)
nonReentrantExitStuck == ENTERED

(* ReentrancyGuard.nonReentrant: the value written on leaving the function *)
nonReentrantExit == NOT_ENTERED

(* the lender collects amount + premium; flashLoanSimple returns and          *)
(* startArbitrage emits FlashLoanExecuted and leaves the nonReentrant section *)
lenderCollect ==
    /\ ~Idle
    /\ Top.pc = "Settling"
    /\ LET totalDebt == Top.amount + Top.premium IN
       IF ~(allowances[Pool][Top.asset] >= totalDebt /\ balances[Top.asset] >= totalDebt)
       THEN Revert(ErrLenderFailed)
       ELSE /\ balances' = [balances EXCEPT ![Top.asset] = @ - totalDebt]
            /\ allowances' = [allowances EXCEPT ![Pool][Top.asset] = @ - totalDebt]
            /\ events' = Append(events,
                   FlashLoanExecuted(arbitragePaths[Top.pathKey].path[1], Top.amount))
            /\ status' = nonReentrantExit
            /\ frames' = SubSeq(frames, 1, Len(frames) - 1)
            /\ lastCall' = Returns("startArbitrage", "ok")
            /\ UNCHANGED <<exchangeRouters, arbitragePaths, pathKeys, ownerReceived>>

(* the lender reverts the loan (no liquidity, reserve paused, ...) *)
lenderFail ==
    /\ ~Idle
    /\ Top.pc \in {"LoanRequested", "Settling"}
    /\ Revert(ErrLenderFailed)

(* ---------------------------- token transfers -------------------------- *)
(* someone transfers a unit of a token to the engine's address: IERC20    *)
(* transfers need no call into the engine                                 *)
tokenReceived(token) ==
    /\ Idle
    /\ balances[token] < MaxBalance
    /\ balances' = [balances EXCEPT ![token] = @ + 1]
    /\ UNCHANGED <<exchangeRouters, arbitragePaths, pathKeys, status,
                   ownerReceived, allowances, events, frames, lastCall>>

(* ---------------------------- monitoring script ------------------------ *)
(* loanAmounts: 1000 units of the listed token, 100 of any other (decimals *)
(* left out)                                                               *)
loanAmountOf(firstToken) == IF firstToken = 1 THEN 1000 ELSE 100

(* a script that skips no path *)
skipsNone(active) == FALSE

(* if (!active) continue *)
skipsPath(active) == ~active

(* if (expectedProfit > 0) *)
isProfitable(estimate) == estimate > 0

(* the script moves on to the next key of its list *)
nextPath == [monitor EXCEPT !.pc = "read", !.index = @ + 1]

(* getArbitragePathCount and pathKeys(i), read once when the script starts *)
monitorConnect ==
    /\ monitor.pc = "connect"
    /\ Idle
    /\ monitor' = [monitor EXCEPT !.pc = "read", !.keys = pathKeys, !.index = 1]
    /\ UNCHANGED engineVars

(* the head of the for loop: getArbitragePath, the active test and the   *)
(* choice of the loan amount; past the last key the script sleeps and    *)
(* starts its next round                                                 *)
monitorRead ==
    /\ monitor.pc = "read"
    /\ Idle
    /\ IF monitor.index > Len(monitor.keys)
       THEN monitor' = [monitor EXCEPT !.index = 1]
       ELSE LET pathDetails == getArbitragePath(monitor.keys[monitor.index]) IN
            IF skipsPath(pathDetails[3])
            THEN monitor' = nextPath
            ELSE monitor' = [monitor EXCEPT !.pc = "simulate",
                                            !.active = pathDetails[3],
                                            !.loanAmount = loanAmountOf(pathDetails[1][1]),
                                            !.expectedProfit = 0]
    /\ UNCHANGED engineVars

(* simulateArbitrage(pathKey, loanAmount) and the profit test; a call that *)
(* throws is caught and the path is left for this round                    *)
monitorSimulate ==
    /\ monitor.pc = "simulate"
    /\ simulateArbitrage(Owner, monitor.keys[monitor.index], monitor.loanAmount)
    /\ IF lastCall'.result = "ok" /\ isProfitable(lastCall'.value)
       THEN monitor' = [monitor EXCEPT !.pc = "start",
                                       !.expectedProfit = lastCall'.value]
       ELSE monitor' = nextPath

(* startArbitrage(pathKey, loanAmount) is sent *)
monitorStart ==
    /\ monitor.pc = "start"
    /\ Idle
    /\ startArbitrage(Owner, monitor.keys[monitor.index], monitor.loanAmount)
    /\ monitor' = [monitor EXCEPT !.pc = "wait"]

(* tx.wait() returns or the call has thrown: on to the next path *)
monitorWait ==
    /\ monitor.pc = "wait"
    /\ Idle
    /\ monitor' = nextPath
    /\ UNCHANGED engineVars

(* what the venues pay in the cycles the script starts *)
MonitorPayouts == AmountsOut \cup {loanAmountOf(t) + d : t \in Tokens, d \in 0..1}

(* exchangeRouters.push is explored while the registry is below the size *)
RoomFor(size) == Len(exchangeRouters) < size

Next ==
    \/ UNCHANGED monitor /\ \E c \in Callers, v \in Venues :
           (c = Owner => RoomFor(MaxExchanges)) /\ addExchange(c, v)
    \/ UNCHANGED monitor /\ \E c \in Callers, i \in 0..MaxExchanges, v \in Venues, a \in BOOLEAN :
           updateExchange(c, i, v, a)
    \/ UNCHANGED monitor /\ \E c \in Callers, p \in PathInputs : addArbitragePath(c, p[1], p[2])
    \/ UNCHANGED monitor /\ \E c \in Callers, k \in KeyInputs, a \in BOOLEAN : updateArbitragePath(c, k, a)
    \/ UNCHANGED monitor /\ \E c \in Callers, k \in KeyInputs, a \in Amounts : simulateArbitrage(c, k, a)
    \/ UNCHANGED monitor /\ \E c \in Callers, t \in Tokens : withdraw(c, t)
    \/ UNCHANGED monitor /\ \E c \in Callers, k \in KeyInputs, a \in Amounts : startArbitrage(c, k, a)
    \/ UNCHANGED monitor /\ \E s \in {Pool, Other}, i \in {Engine, Other}, p \in Premiums :
           executeOperation(s, i, p)
    \/ UNCHANGED monitor /\ \E s \in Callers, i \in {Engine, Other} : strangerCallback(s, i)
    \/ UNCHANGED monitor /\ swapRequest
    \/ UNCHANGED monitor /\ \E out \in AmountsOut : venueReturn(out)
    \/ UNCHANGED monitor /\ venueFail
    \/ UNCHANGED monitor /\ settle
    \/ UNCHANGED monitor /\ lenderCollect
    \/ UNCHANGED monitor /\ lenderFail

Spec == Init /\ [][Next]_vars

(* the registry operations on their own, with room for a larger registry *)
RegistryNext ==
    \/ UNCHANGED monitor /\ \E c \in Callers, v \in Venues :
           (c = Owner => RoomFor(MaxRegistry)) /\ addExchange(c, v)
    \/ UNCHANGED monitor /\ \E c \in Callers, i \in 0..MaxRegistry, v \in Venues, a \in BOOLEAN :
           updateExchange(c, i, v, a)
    \/ UNCHANGED monitor /\ \E c \in Callers, p \in PathInputs : addArbitragePath(c, p[1], p[2])
    \/ UNCHANGED monitor /\ \E c \in Callers, k \in KeyInputs, a \in BOOLEAN : updateArbitragePath(c, k, a)

RegistrySpec == Init /\ [][RegistryNext]_vars

(* the owner's operations and the cycle, on the two closed routes whose *)
(* first tokens differ                                                  *)
LedgerNext ==
    \/ UNCHANGED monitor /\ \E v \in Venues : RoomFor(MaxExchanges) /\ addExchange(Owner, v)
    \/ UNCHANGED monitor /\ \E i \in 0..MaxExchanges, v \in Venues, a \in BOOLEAN :
           updateExchange(Owner, i, v, a)
    \/ UNCHANGED monitor /\ \E p \in LedgerPathInputs : addArbitragePath(Owner, p[1], p[2])
    \/ UNCHANGED monitor /\ \E k \in LedgerKeys, a \in BOOLEAN : updateArbitragePath(Owner, k, a)
    \/ UNCHANGED monitor /\ \E k \in LedgerKeys, a \in Amounts : simulateArbitrage(Owner, k, a)
    \/ UNCHANGED monitor /\ \E k \in LedgerKeys, a \in Amounts : Idle /\ startArbitrage(Owner, k, a)
    \/ UNCHANGED monitor /\ \E p \in Premiums : executeOperation(Pool, Engine, p)
    \/ UNCHANGED monitor /\ swapRequest
    \/ UNCHANGED monitor /\ \E out \in AmountsOut : venueReturn(out)
    \/ UNCHANGED monitor /\ venueFail
    \/ UNCHANGED monitor /\ settle
    \/ UNCHANGED monitor /\ lenderCollect
    \/ UNCHANGED monitor /\ lenderFail

LedgerSpec == Init /\ [][LedgerNext]_vars

(* the owner's operations and the cycle, with a lender that also calls *)
(* back when no loan was requested                                     *)
UnsolicitedNext ==
    \/ UNCHANGED monitor /\ \E v \in Venues : RoomFor(MaxExchanges) /\ addExchange(Owner, v)
    \/ UNCHANGED monitor /\ \E p \in PathInputs : addArbitragePath(Owner, p[1], p[2])
    \/ UNCHANGED monitor /\ \E k \in KeyInputs, a \in BOOLEAN : updateArbitragePath(Owner, k, a)
    \/ UNCHANGED monitor /\ \E t \in Tokens : withdraw(Owner, t)
    \/ UNCHANGED monitor /\ \E k \in KeyInputs, a \in Amounts : startArbitrage(Owner, k, a)
    \/ UNCHANGED monitor /\ \E p \in Premiums : executeOperation(Pool, Engine, p)
    \/ UNCHANGED monitor /\ \E s \in {Pool, Other}, i \in {Engine, Other} : unsolicitedCallback(s, i)
    \/ UNCHANGED monitor /\ swapRequest
    \/ UNCHANGED monitor /\ \E out \in AmountsOut : venueReturn(out)
    \/ UNCHANGED monitor /\ venueFail
    \/ UNCHANGED monitor /\ settle
    \/ UNCHANGED monitor /\ lenderCollect
    \/ UNCHANGED monitor /\ lenderFail

UnsolicitedSpec == Init /\ [][UnsolicitedNext]_vars

(* the registry operations and the estimator, asked about amounts over the *)
(* whole range of the type                                                 *)
EstimatorNext ==
    \/ UNCHANGED monitor /\ \E v \in Venues : RoomFor(MaxExchanges) /\ addExchange(Owner, v)
    \/ UNCHANGED monitor /\ \E i \in 0..MaxExchanges, v \in Venues, a \in BOOLEAN :
           updateExchange(Owner, i, v, a)
    \/ UNCHANGED monitor /\ \E p \in PathInputs : addArbitragePath(Owner, p[1], p[2])
    \/ UNCHANGED monitor /\ \E k \in KeyInputs, a \in BOOLEAN : updateArbitragePath(Owner, k, a)
    \/ UNCHANGED monitor /\ \E c \in Callers, k \in KeyInputs, a \in SimAmounts : simulateArbitrage(c, k, a)

EstimatorSpec == Init /\ [][EstimatorNext]_vars

(* the owner's operations and the cycle on an engine that is sent tokens *)
FundedNext ==
    \/ UNCHANGED monitor /\ \E v \in Venues : RoomFor(MaxExchanges) /\ addExchange(Owner, v)
    \/ UNCHANGED monitor /\ \E p \in LedgerPathInputs : addArbitragePath(Owner, p[1], p[2])
    \/ UNCHANGED monitor /\ \E t \in Tokens : tokenReceived(t)
    \/ UNCHANGED monitor /\ \E t \in Tokens : Idle /\ withdraw(Owner, t)
    \/ UNCHANGED monitor /\ \E k \in LedgerKeys, a \in Amounts :
           Idle /\ startArbitrage(Owner, k, a)
    \/ UNCHANGED monitor /\ \E p \in Premiums : executeOperation(Pool, Engine, p)
    \/ UNCHANGED monitor /\ swapRequest
    \/ UNCHANGED monitor /\ \E out \in AmountsOut : venueReturn(out)
    \/ UNCHANGED monitor /\ venueFail
    \/ UNCHANGED monitor /\ settle
    \/ UNCHANGED monitor /\ lenderCollect
    \/ UNCHANGED monitor /\ lenderFail

FundedSpec == Init /\ [][FundedNext]_vars

(* the script at work while the owner sets up and switches paths *)
MonitorNext ==
    \/ UNCHANGED monitor /\ \E v \in Venues : RoomFor(MaxExchanges) /\ addExchange(Owner, v)
    \/ UNCHANGED monitor /\ \E p \in LedgerPathInputs : addArbitragePath(Owner, p[1], p[2])
    \/ UNCHANGED monitor /\ \E k \in LedgerKeys, a \in BOOLEAN :
           updateArbitragePath(Owner, k, a)
    \/ monitorConnect
    \/ monitorRead
    \/ monitorSimulate
    \/ monitorStart
    \/ monitorWait
    \/ UNCHANGED monitor /\ \E p \in Premiums : executeOperation(Pool, Engine, p)
    \/ UNCHANGED monitor /\ swapRequest
    \/ UNCHANGED monitor /\ \E out \in MonitorPayouts : venueReturn(out)
    \/ UNCHANGED monitor /\ venueFail
    \/ UNCHANGED monitor /\ settle
    \/ UNCHANGED monitor /\ lenderCollect
    \/ UNCHANGED monitor /\ lenderFail

MonitorSpec == Init /\ [][MonitorNext]_vars

(* ---------------------------- properties ------------------------------- *)
Failed(result) == result \notin {"ok", "pending"}

(* the step is one of the named operation: every operation records its name *)
Calls(op) == lastCall'.op = op

(* the step ends the innermost startArbitrage call *)
CycleEnds == ~Idle /\ Len(frames') < Len(frames)

(* the step is a startArbitrage call returning to its caller: at once, or *)
(* by ending the cycle it opened                                          *)
StartReturned ==
    \/ CycleEnds
    \/ /\ frames' = frames
       /\ Calls("startArbitrage")
       /\ \E c \in Callers, k \in KeyInputs, a \in Amounts : startArbitrage(c, k, a)

LastEvent(log) == log[Len(log)]

(* C1: atomic failure.  Every startArbitrage call that fails, at whatever   *)
(* step (caller, path, callback, swap, debt check, collection), leaves the  *)
(* exchange records, path records, key list, guard, balances and allowances *)
(* as they were when the call was made, and adds nothing to the log.        *)
C1_AtomicFailure ==
    [][ (StartReturned /\ Failed(lastCall'.result))
        => IF CycleEnds
           THEN /\ Store' = Top.snapshot
                /\ frames' = SubSeq(frames, 1, Len(frames) - 1)
                /\ (Len(frames) = 1 => events' = <<>> /\ status' = NOT_ENTERED)
           ELSE /\ UNCHANGED <<exchangeRouters, arbitragePaths, pathKeys, status,
                               balances, allowances, frames>>
                /\ events' = TxLog
                /\ ownerReceived' = TxReceived ]_vars

(* a cycle has failed its debt check after swaps moved tokens, and the     *)
(* engine is back with the funds it held before                            *)
C1_Witness ==
    /\ Idle
    /\ lastCall = Returns("startArbitrage", ErrNoProfit)
    /\ \E t \in Tokens : balances[t] > 0
    /\ \A sp \in Spenders, t \in Tokens : allowances[sp][t] = 0

(* C2: settlement threshold.  After the last hop the callback succeeds     *)
(* exactly when the balance of the borrowed asset is >= amount + premium:  *)
(* below it the cycle reverts with "Arbitrage did not yield profit", at    *)
(* exactly amount + premium it succeeds with profit 0; the lender's        *)
(* collection then leaves a non-negative balance.                          *)
C2_SettlementThreshold ==
    /\ [][ (~Idle /\ Top.pc = "SwapChainRunning" /\ frames' # frames
              /\ Top.hop = Len(arbitragePaths[Top.pathKey].exchangeIndexes))
           => LET totalDebt == Top.amount + Top.premium
                  finalBalance == balances[Top.asset] IN
              IF finalBalance >= totalDebt
              THEN /\ Len(frames') = Len(frames)
                   /\ frames'[Len(frames')].pc = "Settling"
                   /\ LastEvent(events') = [name |-> "ArbitrageExecuted",
                                            pathKey |-> Top.pathKey,
                                            profit |-> finalBalance - totalDebt]
                   /\ balances' = balances
              ELSE /\ CycleEnds
                   /\ lastCall' = Returns("startArbitrage", ErrNoProfit) ]_vars
    /\ [][ (~Idle /\ Top.pc = "Settling" /\ CycleEnds /\ lastCall'.result = "ok")
           => /\ balances'[Top.asset] = balances[Top.asset] - (Top.amount + Top.premium)
              /\ balances'[Top.asset] >= 0 ]_vars
    /\ [](\A i \in 1..Len(frames) :
             frames[i].pc = "Settling"
             => balances[frames[i].asset] >= frames[i].amount + frames[i].premium)

(* a callback has succeeded with a balance of exactly amount + premium *)
C2_Witness ==
    /\ ~Idle
    /\ Top.pc = "Settling"
    /\ Top.amount + Top.premium > 0
    /\ balances[Top.asset] = Top.amount + Top.premium
    /\ LastEvent(events).name = "ArbitrageExecuted"
    /\ LastEvent(events).profit = 0

(* the ArbitrageExecuted event of the log, if the cycle emitted one *)
EmittedProfit(log) ==
    LET i == CHOOSE j \in 1..Len(log) : log[j].name = "ArbitrageExecuted"
    IN log[i].profit

(* C3: successful cycle accounting.  For every successful cycle the profit *)
(* carried by ArbitrageExecuted is finalBalance - (amount + premium), and  *)
(* after the lender has collected the balance of the borrowed asset equals *)
(* the balance before startArbitrage plus that profit.                     *)
C3_CycleAccounting ==
    [][ (~Idle /\ Top.pc = "Settling" /\ CycleEnds /\ lastCall'.result = "ok")
        => /\ EmittedProfit(events) = balances[Top.asset] - (Top.amount + Top.premium)
           /\ balances'[Top.asset] =
                  Top.snapshot.balances[Top.asset] + EmittedProfit(events) ]_vars

(* the re-entrant startArbitrage calls: made while a cycle is in flight *)
Reenters(caller, pathKey, amount) ==
    ~Idle /\ Calls("startArbitrage") /\ startArbitrage(caller, pathKey, amount)

(* C4: re-entrancy rejection.  Every startArbitrage call made while a      *)
(* cycle is active, whoever the caller is, fails with the re-entrancy      *)
(* error and requests no second loan.                                      *)
C4_ReentrancyRejection ==
    [][ \A c \in Callers, k \in KeyInputs, a \in Amounts :
          Reenters(c, k, a)
          => /\ lastCall' = Returns("startArbitrage", ErrReentrant)
             /\ frames' = frames ]_vars

(* C4, amended: the call fails and requests no second loan; the error is   *)
(* the re-entrancy error when the caller is the owner and the ownership    *)
(* error otherwise (onlyOwner runs before nonReentrant).                   *)
C4_ReentrancyRejectionAmended ==
    [][ \A c \in Callers, k \in KeyInputs, a \in Amounts :
          Reenters(c, k, a)
          => /\ lastCall' = Returns("startArbitrage",
                                    IF c = Owner THEN ErrReentrant ELSE ErrNotOwner)
             /\ frames' = frames
             /\ UNCHANGED <<exchangeRouters, arbitragePaths, pathKeys, status,
                            balances, allowances, events>> ]_vars

(* the owner has re-entered startArbitrage while the lender held the loan *)
C4_Witness ==
    /\ ~Idle
    /\ Top.pc \in {"LoanRequested", "Settling"}
    /\ lastCall = Returns("startArbitrage", ErrReentrant)

(* C5: single cycle in flight.  At most one loan requested by the engine   *)
(* is outstanding in any reachable state.                                  *)
C5_SingleCycle ==
    /\ Len(frames) <= 1
    /\ (status = ENTERED <=> Len(frames) = 1)

(* a second startArbitrage was attempted by the owner during a swap and    *)
(* the first cycle is still the only one                                   *)
C5_Witness ==
    /\ Len(frames) = 1
    /\ Top.pc = "InVenue"
    /\ arbitragePaths[Top.pathKey].active
    /\ lastCall = Returns("startArbitrage", ErrReentrant)

(* C6: idempotent registration.  The key list never holds the same key     *)
(* twice, so getArbitragePathCount is the number of distinct registered    *)
(* paths and two identical addArbitragePath calls raise it by at most one. *)
C6_IdempotentRegistration ==
    /\ \A i, j \in 1..Len(pathKeys) : pathKeys[i] = pathKeys[j] => i = j
    /\ getArbitragePathCount
         = Cardinality({k \in KeySpace : Len(arbitragePaths[k].path) > 0})

(* the arguments addArbitragePath must reject in the current registry *)
BadPath(path, exchangeIndexes) ==
    \/ Len(path) < 2
    \/ Len(exchangeIndexes) # Len(path) - 1
    \/ \E i \in 1..Len(exchangeIndexes) :
          \/ exchangeIndexes[i] >= getExchangeCount
          \/ ~exchangeRouters[exchangeIndexes[i] + 1].active

(* C7: path validation.  addArbitragePath fails and leaves the path map,   *)
(* the key list and the exchange registry unchanged whenever tokens has    *)
(* fewer than 2 elements, the hop count is not tokens.length - 1, a hop    *)
(* index is not registered, or a hop's exchange is inactive at call time.  *)
C7_PathValidation ==
    [][ Calls("addArbitragePath") => \A c \in Callers, p \in PathInputs :
          (addArbitragePath(c, p[1], p[2]) /\ BadPath(p[1], p[2]))
          => /\ lastCall'.op = "addArbitragePath"
             /\ Failed(lastCall'.result)
             /\ UNCHANGED <<arbitragePaths, pathKeys, exchangeRouters>> ]_vars

(* a well-formed path was refused because its exchange had been switched off *)
C7_Witness ==
    /\ lastCall = Returns("addArbitragePath", ErrExchangeInactive)
    /\ \E i \in 1..Len(exchangeRouters) : ~exchangeRouters[i].active

(* the paths in the key list that route a hop through exchange index *)
RoutedThrough(index) ==
    {k \in Range(pathKeys) : index \in Range(arbitragePaths[k].exchangeIndexes)}

(* C8: deactivation non-retroactivity.  updateExchange (in particular with *)
(* active = false) leaves every path record and the key list as they were; *)
(* afterwards only the addArbitragePath calls that reference an inactive   *)
(* exchange are refused for that reason.                                   *)
C8_DeactivationNonRetroactive ==
    /\ [][ Calls("updateExchange") => \A i \in 0..MaxExchanges, v \in Venues, a \in BOOLEAN :
             updateExchange(Owner, i, v, a)
             => /\ UNCHANGED <<arbitragePaths, pathKeys>>
                /\ \A k \in KeySpace : getArbitragePath(k)' = getArbitragePath(k) ]_vars
    /\ [][ Calls("addArbitragePath") => \A p \in PathInputs :
             (addArbitragePath(Owner, p[1], p[2])
                /\ Len(p[1]) >= 2 /\ Len(p[2]) = Len(p[1]) - 1
                /\ \A h \in Range(p[2]) : h < getExchangeCount)
             => (lastCall'.result = ErrExchangeInactive
                   <=> \E h \in Range(p[2]) : ~exchangeRouters[h + 1].active)
                /\ (lastCall'.result = "ok"
                   <=> \A h \in Range(p[2]) : exchangeRouters[h + 1].active) ]_vars

(* an exchange is switched off while an active registered path routes through it *)
C8_Witness ==
    /\ lastCall = Returns("updateExchange", "ok")
    /\ \E i \in 1..Len(exchangeRouters) :
          /\ ~exchangeRouters[i].active
          /\ \E k \in RoutedThrough(i - 1) : arbitragePaths[k].active

(* what a withdraw of token t does to a balance of N > 0, and to one of 0 *)
Sweeps(t) ==
    IF balances[t] > 0
    THEN /\ lastCall' = Returns("withdraw", "ok")
         /\ balances' = [balances EXCEPT ![t] = 0]
         /\ ownerReceived' = [NoneReceived EXCEPT ![t] = balances[t]]
         /\ events' = <<[name |-> "FundsWithdrawn", token |-> t,
                         amount |-> balances[t]]>>
         /\ UNCHANGED <<exchangeRouters, arbitragePaths, pathKeys, status,
                        allowances, frames>>
    ELSE /\ lastCall' = Returns("withdraw", ErrNoBalance)
         /\ ownerReceived' = NoneReceived
         /\ events' = <<>>
         /\ UNCHANGED <<exchangeRouters, arbitragePaths, pathKeys, status,
                        balances, allowances, frames>>

(* C9: withdrawal sweep.  Every withdraw(asset) by the owner with a        *)
(* balance N > 0 sends exactly N to the owner, leaves the balance of asset *)
(* at 0 and every other balance unchanged and emits                        *)
(* FundsWithdrawn(asset, N); with a balance of 0 it fails with "No balance *)
(* to withdraw" and changes nothing.                                       *)
C9_WithdrawalSweep ==
    [][ Calls("withdraw") => \A t \in Tokens : withdraw(Owner, t) => Sweeps(t) ]_vars

(* C9, amended: that holds for the withdraw calls made while no cycle is   *)
(* in flight; a withdraw by the owner from inside a cycle fails with the   *)
(* re-entrancy error whatever the balance, and changes nothing.            *)
C9_WithdrawalSweepAmended ==
    [][ Calls("withdraw") => \A t \in Tokens :
          withdraw(Owner, t)
          => IF Idle
             THEN Sweeps(t)
             ELSE /\ lastCall' = Returns("withdraw", ErrReentrant)
                  /\ UNCHANGED <<exchangeRouters, arbitragePaths, pathKeys, status,
                                 balances, allowances, events, ownerReceived,
                                 frames>> ]_vars

(* a withdrawal has swept a positive balance to the owner *)
C9_Witness ==
    /\ lastCall = Returns("withdraw", "ok")
    /\ \E t \in Tokens : ownerReceived[t] > 0 /\ balances[t] = 0

(* a call by an identity other than the owner *)
CalledByOther ==
    \/ Calls("addExchange") /\ \E v \in Venues : addExchange(Other, v)
    \/ Calls("updateExchange")
          /\ \E i \in 0..MaxExchanges, v \in Venues, a \in BOOLEAN :
                 updateExchange(Other, i, v, a)
    \/ Calls("addArbitragePath")
          /\ \E p \in PathInputs : addArbitragePath(Other, p[1], p[2])
    \/ Calls("updateArbitragePath")
          /\ \E k \in KeyInputs, a \in BOOLEAN : updateArbitragePath(Other, k, a)
    \/ Calls("startArbitrage")
          /\ \E k \in KeyInputs, a \in Amounts : startArbitrage(Other, k, a)
    \/ Calls("withdraw") /\ \E t \in Tokens : withdraw(Other, t)

(* C10: owner-only mutation.  addExchange, updateExchange,                 *)
(* addArbitragePath, updateArbitragePath, startArbitrage and withdraw,     *)
(* called by anyone but the owner, fail with the ownership error and leave *)
(* the exchange registry, the path registry and all balances unchanged.    *)
C10_OwnerOnly ==
    [][ CalledByOther
        => /\ lastCall'.result = ErrNotOwner
           /\ UNCHANGED <<exchangeRouters, arbitragePaths, pathKeys, status,
                          balances, allowances, frames>>
           /\ ownerReceived' = TxReceived
           /\ events' = TxLog ]_vars

(* a stranger's withdraw was refused while the engine held funds *)
C10_Witness ==
    /\ lastCall = Returns("withdraw", ErrNotOwner)
    /\ \E t \in Tokens : balances[t] > 0

(* the step is a callback arriving with the given sender and initiator *)
CallbackArrives(sender, initiator) ==
    \/ Calls("startArbitrage") /\ \E p \in Premiums : executeOperation(sender, initiator, p)
    \/ Calls("executeOperation")
          /\ strangerCallback(sender, initiator)

(* the step requests no swap and grants no allowance *)
NothingRequested ==
    /\ \A i \in 1..Len(frames') : frames'[i].pc # "InVenue"
    /\ \A s \in Spenders, t \in Tokens : allowances'[s][t] <= allowances[s][t]
    /\ balances' = IF Idle THEN balances ELSE Top.snapshot.balances

(* C11: callback authorization.  executeOperation fails with "Caller must  *)
(* be Aave pool" when its caller is not the pool and, for the pool as      *)
(* caller, with "Initiator must be this contract" when the initiator is    *)
(* not the engine; in both cases no swap is requested, no allowance is     *)
(* granted and the cycle it arrived in is reverted to its starting state.  *)
C11_CallbackAuthorization ==
    [][ \A s \in Callers \cup {Pool}, i \in {Engine, Other} :
          (CallbackArrives(s, i) /\ (s # Pool \/ i # Engine))
          => /\ lastCall'.result = IF s # Pool THEN ErrNotPool ELSE ErrInitiator
             /\ NothingRequested
             /\ ~Idle => /\ Store' = Top.snapshot
                         /\ frames' = SubSeq(frames, 1, Len(frames) - 1)
                         /\ status' = NOT_ENTERED ]_vars

(* a loan on a registered path was cancelled by the initiator check *)
C11_Witness ==
    /\ Idle
    /\ lastCall = Returns("startArbitrage", ErrInitiator)
    /\ status = NOT_ENTERED
    /\ pathKeys # <<>>

(* C12: startArbitrage path preconditions.  A startArbitrage on a key that *)
(* was never registered, or on a path whose active flag is false, fails    *)
(* and no loan is requested, whoever calls it; for the owner calling while *)
(* no cycle is in flight the error is "Path does not exist" for the        *)
(* unregistered key and "Path not active" for the inactive path.           *)
C12_PathPreconditions ==
    [][ Calls("startArbitrage") => \A c \in Callers, k \in KeyInputs, a \in Amounts :
          (startArbitrage(c, k, a)
             /\ (k \notin Range(pathKeys) \/ ~arbitragePaths[k].active))
          => /\ Failed(lastCall'.result)
             /\ frames' = frames
             /\ status' = status
             /\ (c = Owner /\ Idle)
                  => lastCall' = Returns("startArbitrage",
                         IF k \notin Range(pathKeys) THEN ErrPathNotFound
                         ELSE ErrPathInactive) ]_vars

(* the owner's startArbitrage was refused on a registered path that had    *)
(* been switched off                                                       *)
C12_Witness ==
    /\ lastCall = Returns("startArbitrage", ErrPathInactive)
    /\ \E k \in Range(pathKeys) : ~arbitragePaths[k].active
    /\ Idle

(* C13: simulateArbitrage is read-only.  Whether it returns or fails, for  *)
(* every caller, key and amount, it requests no loan and no swap and       *)
(* leaves every balance, allowance, path record, the key list and every    *)
(* exchange record unchanged.                                              *)
C13_SimulateReadOnly ==
    [][ Calls("simulateArbitrage") => \A c \in Callers, k \in KeyInputs, a \in Amounts :
          simulateArbitrage(c, k, a)
          => /\ lastCall'.op = "simulateArbitrage"
             /\ frames' = frames
             /\ UNCHANGED <<exchangeRouters, arbitragePaths, pathKeys, status,
                            balances, allowances, events, ownerReceived>> ]_vars

(* a simulation has returned for an active path while the engine held funds *)
C13_Witness ==
    /\ lastCall = Returns("simulateArbitrage", "ok")
    /\ \E k \in Range(pathKeys) : arbitragePaths[k].active
    /\ \E t \in Tokens : balances[t] > 0

(* C14: simulateArbitrage and startArbitrage share their path failure      *)
(* conditions.  simulateArbitrage fails with "Path does not exist" exactly *)
(* for the unregistered keys and with "Path not active" exactly for the    *)
(* registered inactive paths, and an owner's startArbitrage made in the    *)
(* same state (no cycle in flight) fails with the same error in the same   *)
(* cases and starts a cycle in the others.                                 *)
C14_SharedPathFailures ==
    /\ [][ Calls("simulateArbitrage") => \A c \in Callers, k \in KeyInputs, a \in Amounts :
             simulateArbitrage(c, k, a)
             => /\ lastCall'.result = ErrPathNotFound <=> k \notin Range(pathKeys)
                /\ lastCall'.result = ErrPathInactive
                      <=> (k \in Range(pathKeys) /\ ~arbitragePaths[k].active)
                /\ lastCall'.result \in {ErrPathNotFound, ErrPathInactive, "ok"} ]_vars
    /\ [][ Calls("startArbitrage") => \A k \in KeyInputs, a \in Amounts :
             (Idle /\ startArbitrage(Owner, k, a))
             => IF simulateOutcome(k) = "ok"
                THEN lastCall'.result = "pending" /\ Len(frames') = 1
                ELSE lastCall'.result = simulateOutcome(k) /\ frames' = frames ]_vars

(* a simulation was refused for a registered path that is switched off *)
C14_Witness ==
    /\ lastCall = Returns("simulateArbitrage", ErrPathInactive)
    /\ \E k \in Range(pathKeys) : ~arbitragePaths[k].active

(* the descriptor addExchange stores for a venue *)
NewDescriptor(venue) ==
    [routerAddress |-> venue.routerAddress, name |-> venue.name, active |-> TRUE]

(* the step is an updateExchange accepted for the given index *)
UpdatesExchange(index) ==
    /\ Calls("updateExchange")
    /\ index < getExchangeCount
    /\ \E v \in Venues, a \in BOOLEAN : updateExchange(Owner, index, v, a)

(* C15: the exchange registry is append-only with stable indices.          *)
(* addExchange by the owner appends a descriptor with active = true at the *)
(* index equal to the previous getExchangeCount, reports that index in     *)
(* ExchangeAdded and raises the count by exactly one; no step lowers the   *)
(* count, and a descriptor already registered stays at its index, changed  *)
(* only by an updateExchange of that index.                                *)
C15_RegistryAppendOnly ==
    /\ [][ Calls("addExchange") => \A v \in Venues :
             addExchange(Owner, v)
             => /\ exchangeRouters' = Append(exchangeRouters, NewDescriptor(v))
                /\ getExchangeCount' = getExchangeCount + 1
                /\ exchangeRouters'[getExchangeCount + 1].active
                /\ events' = <<[name |-> "ExchangeAdded", index |-> getExchangeCount,
                                router |-> v.routerAddress, exname |-> v.name]>>
                /\ lastCall' = Returns("addExchange", "ok") ]_vars
    /\ [][ /\ getExchangeCount' >= getExchangeCount
           /\ \A i \in 1..getExchangeCount :
                 exchangeRouters'[i] # exchangeRouters[i] => UpdatesExchange(i - 1) ]_vars

(* an exchange has just been appended to a registry that already held one, *)
(* which is still at index 0 as it was last updated                        *)
C15_Witness ==
    /\ lastCall = Returns("addExchange", "ok")
    /\ getExchangeCount = 2
    /\ ~exchangeRouters[1].active
    /\ exchangeRouters[2].active
    /\ LastEvent(events).name = "ExchangeAdded"
    /\ LastEvent(events).index = getExchangeCount - 1

(* C16: updateExchange(index, venue, name, active) by the owner.  With     *)
(* index >= getExchangeCount it fails with "Invalid exchange index" and    *)
(* the registry is unchanged; otherwise the descriptor at index gets       *)
(* exactly the three values given, and every other descriptor, the count,  *)
(* every path record, the key list and every balance are unchanged.        *)
C16_UpdateExchange ==
    [][ Calls("updateExchange") => \A i \in 0..MaxRegistry, v \in Venues, a \in BOOLEAN :
          updateExchange(Owner, i, v, a)
          => IF i >= getExchangeCount
             THEN /\ lastCall' = Returns("updateExchange", ErrInvalidIndex)
                  /\ UNCHANGED <<exchangeRouters, arbitragePaths, pathKeys,
                                 balances, allowances>>
             ELSE /\ lastCall' = Returns("updateExchange", "ok")
                  /\ exchangeRouters'[i + 1].routerAddress = v.routerAddress
                  /\ exchangeRouters'[i + 1].name = v.name
                  /\ exchangeRouters'[i + 1].active = a
                  /\ getExchangeCount' = getExchangeCount
                  /\ \A j \in 1..getExchangeCount :
                        j # i + 1 => exchangeRouters'[j] = exchangeRouters[j]
                  /\ UNCHANGED <<arbitragePaths, pathKeys, balances, allowances>> ]_vars

(* an update has replaced router and name of the second exchange and       *)
(* switched it off, next to a first exchange that is as it was added       *)
C16_Witness ==
    /\ lastCall = Returns("updateExchange", "ok")
    /\ getExchangeCount = 2
    /\ exchangeRouters[1] = [routerAddress |-> "routerA", name |-> "ExchangeA",
                             active |-> TRUE]
    /\ exchangeRouters[2] = [routerAddress |-> "routerB", name |-> "ExchangeB",
                             active |-> FALSE]

(* C17: updateArbitragePath(pathKey, active) by the owner.  For a key that *)
(* is not registered it fails with "Path does not exist" and creates no    *)
(* record; for a registered key it sets that path's active flag and leaves *)
(* its tokens, its hops, the key list, every other path and the exchange   *)
(* registry unchanged.                                                     *)
C17_UpdatePathFrame ==
    [][ Calls("updateArbitragePath") => \A k \in KeyInputs, a \in BOOLEAN :
          updateArbitragePath(Owner, k, a)
          => IF k \notin Range(pathKeys)
             THEN /\ lastCall' = Returns("updateArbitragePath", ErrPathNotFound)
                  /\ arbitragePaths'[k] = ZeroPath
                  /\ UNCHANGED <<arbitragePaths, pathKeys, exchangeRouters, balances>>
             ELSE /\ lastCall' = Returns("updateArbitragePath", "ok")
                  /\ arbitragePaths'[k].active = a
                  /\ arbitragePaths'[k].path = arbitragePaths[k].path
                  /\ arbitragePaths'[k].exchangeIndexes = arbitragePaths[k].exchangeIndexes
                  /\ \A other \in KeySpace \ {k} :
                        arbitragePaths'[other] = arbitragePaths[other]
                  /\ UNCHANGED <<pathKeys, exchangeRouters, balances>> ]_vars

(* a registered path has been switched off by updateArbitragePath, its     *)
(* tokens and hops still on record                                         *)
C17_Witness ==
    /\ lastCall = Returns("updateArbitragePath", "ok")
    /\ \E k \in Range(pathKeys) :
          /\ ~arbitragePaths[k].active
          /\ Len(arbitragePaths[k].path) = Len(arbitragePaths[k].exchangeIndexes) + 1

(* C18: getArbitragePath never fails.  For a registered key it returns the *)
(* tokens and hops that were given to addArbitragePath (those the key was  *)
(* computed from) and the stored active flag; for a key never registered   *)
(* it returns the zero-value record, so the returned token list is empty   *)
(* exactly for the unregistered keys.                                      *)
C18_GetArbitragePath ==
    \A k \in KeySpace :
        /\ IF k \in Range(pathKeys)
           THEN /\ k = PathKeyOf(getArbitragePath(k)[1], getArbitragePath(k)[2])
                /\ <<getArbitragePath(k)[1], getArbitragePath(k)[2]>> \in PathInputs
                /\ getArbitragePath(k)[3] = arbitragePaths[k].active
           ELSE getArbitragePath(k) = <<(<<>>), (<<>>), FALSE>>
        /\ Len(getArbitragePath(k)[1]) = 0 <=> k \notin Range(pathKeys)

(* one path is registered and switched off, the other key was never        *)
(* registered                                                              *)
C18_Witness ==
    /\ \E k \in Range(pathKeys) : getArbitragePath(k)[3] = FALSE
    /\ \E k \in KeyInputs \ {UnknownKey} : k \notin Range(pathKeys)
    /\ lastCall.op = "updateArbitragePath"

(* C19: paths are never removed.  On every step a key in the key list      *)
(* stays in it with the same tokens and the same hops (only the flag may   *)
(* differ), and getArbitragePathCount does not decrease.                   *)
C19_PathsNeverRemoved ==
    [][ /\ getArbitragePathCount' >= getArbitragePathCount
        /\ \A k \in Range(pathKeys) :
              /\ k \in Range(pathKeys')
              /\ getArbitragePath(k)[1]' = getArbitragePath(k)[1]
              /\ getArbitragePath(k)[2]' = getArbitragePath(k)[2] ]_vars

(* after registration a path was switched off, then a cycle on another     *)
(* path ran to its end, and the key list still holds both                  *)
C19_Witness ==
    /\ Len(pathKeys) = MaxPathKeys
    /\ \E k \in Range(pathKeys) :
          ~arbitragePaths[k].active /\ Len(arbitragePaths[k].path) >= 2
    /\ lastCall = Returns("startArbitrage", "ok")

(* C20: slippage protection.  Every swap the engine requests carries a     *)
(* positive minimum-output bound, so a venue paying less than the bound    *)
(* fails the cycle.                                                        *)
C20_SlippageProtection ==
    \A i \in 1..Len(frames) :
        frames[i].pc = "InVenue" => frames[i].amountOutMin > 0
(* the innermost call's frame after the step *)
TopAfter == frames'[Len(frames')]

(* the step stays inside the innermost cycle *)
SameCycle == ~Idle /\ Len(frames') = Len(frames)

(* the number of hops of the path a frame walks *)
HopCount(f) == Len(arbitragePaths[f.pathKey].exchangeIndexes)

(* C21: loan request contents.  Every startArbitrage(pathKey, amount) that *)
(* passes its checks issues exactly one loan request, with the engine as   *)
(* receiver, the first token of the path stored under pathKey as asset,    *)
(* the given amount and pathKey as the data handed back; the callback      *)
(* credits that asset and the swaps walk the path stored under that key.   *)
C21_LoanRequest ==
    /\ [][ Calls("startArbitrage") => \A k \in KeyInputs, a \in Amounts :
             (startArbitrage(Owner, k, a) /\ lastCall'.result = "pending")
             => /\ Len(frames') = Len(frames) + 1
                /\ SubSeq(frames', 1, Len(frames)) = frames
                /\ TopAfter.pc = "LoanRequested"
                /\ TopAfter.receiver = Engine
                /\ TopAfter.asset = arbitragePaths[k].path[1]
                /\ TopAfter.amount = a
                /\ TopAfter.pathKey = k ]_vars
    /\ [][ (SameCycle /\ Top.pc = "LoanRequested" /\ TopAfter.pc = "SwapChainRunning")
           => /\ TopAfter.pathKey = Top.pathKey
              /\ TopAfter.asset = arbitragePaths[Top.pathKey].path[1]
              /\ balances' = [balances EXCEPT
                                 ![arbitragePaths[Top.pathKey].path[1]] = @ + Top.amount]
              /\ TopAfter.hop = 0 ]_vars
    /\ [](\A i \in 1..Len(frames) :
             /\ frames[i].pathKey \in Range(pathKeys)
             /\ frames[i].asset = arbitragePaths[frames[i].pathKey].path[1]
             /\ frames[i].receiver = Engine)

(* the lender has called back on the request of a one-hop path and the     *)
(* engine holds the borrowed amount of that path's first token             *)
C21_Witness ==
    /\ ~Idle
    /\ Top.pc = "SwapChainRunning"
    /\ Top.hop = 0
    /\ arbitragePaths[Top.pathKey].path = <<1, 2>>
    /\ Top.asset = 1
    /\ balances[1] >= Top.amount

(* C22: swap-chain ordering.  In one cycle on a path of n hops the swaps   *)
(* are requested in hop order 0..n-1, one per hop, hop i from tokens[i] to *)
(* tokens[i+1] through the venue registered at exchangeHops[i]; a request  *)
(* is made only when the previous swap has returned, and the debt check is *)
(* made only after the last hop has returned.                              *)
C22_SwapOrdering ==
    /\ [][ (SameCycle /\ TopAfter.pc = "InVenue" /\ Top.pc # "InVenue")
           => LET path == arbitragePaths[Top.pathKey] IN
              /\ Top.pc = "SwapChainRunning"
              /\ Top.hop < Len(path.exchangeIndexes)
              /\ TopAfter.hop = Top.hop
              /\ TopAfter.swapPath = <<path.path[Top.hop + 1], path.path[Top.hop + 2]>>
              /\ TopAfter.router =
                    exchangeRouters[path.exchangeIndexes[Top.hop + 1] + 1].routerAddress ]_vars
    /\ [][ (SameCycle /\ TopAfter.hop # Top.hop)
           => /\ Top.pc = "InVenue"
              /\ TopAfter.pc = "SwapChainRunning"
              /\ TopAfter.hop = Top.hop + 1 ]_vars
    /\ [][ (SameCycle /\ Top.pc = "InVenue" /\ TopAfter.pc # "InVenue")
           => TopAfter.hop = Top.hop + 1 ]_vars
    /\ [][ (~Idle /\ Top.pc = "SwapChainRunning" /\ frames' # frames
              /\ (IF SameCycle THEN TopAfter.pc = "Settling"
                  ELSE lastCall'.result = ErrNoProfit))
           => Top.hop = HopCount(Top) ]_vars
    /\ [](\A i \in 1..Len(frames) :
             /\ frames[i].hop <= HopCount(frames[i])
             /\ frames[i].pc = "InVenue" => frames[i].hop < HopCount(frames[i])
             /\ frames[i].pc = "Settling" => frames[i].hop = HopCount(frames[i])
             /\ frames[i].pc = "LoanRequested" => frames[i].hop = 0)

(* the second swap of a two-hop path is with its venue, asked to turn      *)
(* token 2 back into token 1                                               *)
C22_Witness ==
    /\ ~Idle
    /\ Top.pc = "InVenue"
    /\ Top.hop = 1
    /\ HopCount(Top) = 2
    /\ Top.swapPath = <<2, 1>>

(* C23: swap request parameters.  Every swap request offers the engine's   *)
(* entire balance of the hop's input token (funds held before the cycle    *)
(* included), asks for a minimum output of 0, names the engine as the      *)
(* recipient, and authorizes the venue for exactly the offered amount.     *)
C23_SwapParameters ==
    \A i \in 1..Len(frames) :
        frames[i].pc = "InVenue"
        => /\ frames[i].amountIn = balances[frames[i].swapPath[1]]
           /\ frames[i].amountOutMin = 0
           /\ frames[i].to = Engine
           /\ allowances[frames[i].router][frames[i].swapPath[1]] = frames[i].amountIn
           /\ \A t \in Tokens \ {frames[i].swapPath[1]} :
                 allowances[frames[i].router][t] = 0

(* the first swap offers more than was borrowed: the engine held funds of  *)
(* the input token before the cycle                                        *)
C23_Witness ==
    /\ ~Idle
    /\ Top.pc = "InVenue"
    /\ Top.hop = 0
    /\ Top.amountIn > Top.amount
    /\ allowances[Top.router][Top.swapPath[1]] = Top.amountIn

(* C24: swap deadline.  Every swap request carries a deadline 300 seconds  *)
(* after the time of the request, so strictly later than it; a swap is     *)
(* carried out only within its deadline, and a venue that rejects a swap   *)
(* fails the whole cycle, which leaves everything as it was before.        *)
C24_SwapDeadline ==
    /\ [](\A i \in 1..Len(frames) :
             frames[i].pc = "InVenue"
             => /\ frames[i].deadline = frames[i].timestamp + 300
                /\ frames[i].deadline > frames[i].timestamp)
    /\ [][ (~Idle /\ Top.pc = "InVenue" /\ frames' # frames)
           => IF SameCycle
              THEN /\ Top.deadline >= Top.timestamp
                   /\ TopAfter.pc = "SwapChainRunning"
              ELSE /\ CycleEnds
                   /\ Failed(lastCall'.result)
                   /\ Store' = Top.snapshot ]_vars

(* a venue has rejected a swap it was asked for; the cycle has failed and  *)
(* no allowance, no event and no set guard is left of it                   *)
C24_Witness ==
    /\ Idle
    /\ lastCall = Returns("startArbitrage", ErrSwapFailed)
    /\ events = <<>>
    /\ \A sp \in Spenders, t \in Tokens : allowances[sp][t] = 0
    /\ status = NOT_ENTERED

(* C26: guard release.  The in-progress flag is set only while a           *)
(* startArbitrage call is executing and is clear whenever none is; when a  *)
(* startArbitrage call ends, succeeded or failed, the flag is clear, and a *)
(* startArbitrage by the owner on a registered active path made when no    *)
(* call is executing is never rejected as re-entrant: it opens a cycle.    *)
C26_GuardRelease ==
    /\ [](Idle => status = NOT_ENTERED)
    /\ [](status = ENTERED => ~Idle)
    /\ [][ (CycleEnds /\ Len(frames) = 1) => status' = NOT_ENTERED ]_vars
    /\ [][ (Idle /\ Calls("withdraw")) => status' = NOT_ENTERED ]_vars
    /\ [][ (Idle /\ Calls("startArbitrage")) => \A k \in KeyInputs, a \in Amounts :
             (startArbitrage(Owner, k, a) /\ k \in Range(pathKeys)
                /\ arbitragePaths[k].active)
             => /\ lastCall'.result = "pending"
                /\ Len(frames') = 1 ]_vars

(* a cycle has been opened while the engine holds the profit of an earlier *)
(* cycle that succeeded                                                    *)
C26_Witness ==
    /\ Len(frames) = 1
    /\ Top.pc = "LoanRequested"
    /\ status = ENTERED
    /\ \E t \in Tokens : balances[t] > 0

(* C27: repayment authorization is exact.  The lender's allowance is       *)
(* amount + premium of the borrowed asset from the moment the debt check   *)
(* has passed until the lender collects, and 0 for every other asset and   *)
(* at every other time; it is granted only when the balance covers it.     *)
C27_RepaymentAuthorization ==
    /\ \A t \in Tokens :
          allowances[Pool][t] =
             IF ~Idle /\ Top.pc = "Settling" /\ t = Top.asset
             THEN Top.amount + Top.premium
             ELSE 0
    /\ (~Idle /\ Top.pc = "Settling")
       => /\ balances[Top.asset] >= allowances[Pool][Top.asset]
          /\ Top.hop = HopCount(Top)

(* the debt check has passed on a loan with a premium and the lender is    *)
(* authorized for amount + premium of the borrowed asset, nothing else     *)
C27_Witness ==
    /\ ~Idle
    /\ Top.pc = "Settling"
    /\ Top.premium = 1
    /\ allowances[Pool][Top.asset] = Top.amount + 1
    /\ \A t \in Tokens \ {Top.asset} : allowances[Pool][t] = 0

(* C28: cycle notifications.  A startArbitrage that succeeds leaves        *)
(* exactly one ArbitrageExecuted carrying its pathKey, emitted when all    *)
(* swaps have returned, followed by FlashLoanExecuted(tokens[0], amount);  *)
(* a startArbitrage that fails leaves neither.                             *)
C28_CycleNotifications ==
    /\ [][ (CycleEnds /\ Len(frames) = 1)
           => IF lastCall'.result = "ok"
              THEN /\ Len(events') = 2
                   /\ events'[1].name = "ArbitrageExecuted"
                   /\ events'[1].pathKey = Top.pathKey
                   /\ events'[2] = [name |-> "FlashLoanExecuted",
                                    token |-> arbitragePaths[Top.pathKey].path[1],
                                    amount |-> Top.amount]
              ELSE events' = <<>> ]_vars
    /\ [][ (SameCycle /\ events' # events)
           => /\ Top.pc = "SwapChainRunning"
              /\ Top.hop = HopCount(Top)
              /\ TopAfter.pc = "Settling"
              /\ events = <<>>
              /\ Len(events') = 1
              /\ events'[1].name = "ArbitrageExecuted" ]_vars
    /\ [][ (Idle /\ Calls("startArbitrage") /\ Failed(lastCall'.result))
           => events' = <<>> ]_vars

(* a cycle has succeeded and its transaction carries ArbitrageExecuted,    *)
(* then FlashLoanExecuted for the borrowed token                           *)
C28_Witness ==
    /\ Idle
    /\ lastCall = Returns("startArbitrage", "ok")
    /\ Len(events) = 2
    /\ events[1].name = "ArbitrageExecuted"
    /\ events[2] = [name |-> "FlashLoanExecuted", token |-> 1, amount |-> 1]

(* C25: callback only inside a cycle.  A loan callback that arrives while  *)
(* no startArbitrage is executing is rejected and changes nothing, also    *)
(* when its caller is the pool and its stated initiator is the engine.     *)
C25_CallbackOnlyInCycle ==
    [][ (Idle /\ Calls("executeOperation"))
        => /\ Failed(lastCall'.result)
           /\ events' = <<>>
           /\ UNCHANGED <<exchangeRouters, arbitragePaths, pathKeys, status,
                          balances, allowances, frames>> ]_vars

(* the writes of a cycle's steps leave alone every token outside the route *)
OffRouteUnchanged ==
    \A t \in Tokens \ Range(arbitragePaths[Top.pathKey].path) :
        balances'[t] = balances[t]

(* C29: ledger frame.  addExchange, updateExchange, addArbitragePath,      *)
(* updateArbitragePath and simulateArbitrage leave every balance as it is  *)
(* (the read accessors are state functions and write nothing), and every   *)
(* step of a cycle, its failure included, leaves alone the balance of      *)
(* every token that is not on the route being executed.                    *)
C29_LedgerFrame ==
    /\ [][ (Calls("addExchange") \/ Calls("updateExchange")
              \/ Calls("addArbitragePath") \/ Calls("updateArbitragePath")
              \/ Calls("simulateArbitrage"))
           => balances' = balances ]_vars
    /\ [][ (Idle /\ Calls("startArbitrage")) => balances' = balances ]_vars
    /\ [][ ~Idle => OffRouteUnchanged ]_vars
    /\ [][ CycleEnds
           => \A t \in Tokens \ Range(arbitragePaths[Top.pathKey].path) :
                 balances'[t] = Top.snapshot.balances[t] ]_vars

(* a cycle on the route through tokens 3 and 2 has succeeded while the     *)
(* engine held token 1, which is not on that route, and still holds it     *)
C29_Witness ==
    /\ Idle
    /\ lastCall = Returns("startArbitrage", "ok")
    /\ events[2] = [name |-> "FlashLoanExecuted", token |-> 3, amount |-> 1]
    /\ balances[1] > 0

(* C30: registry notifications.  Every addExchange that succeeds emits a   *)
(* notification carrying the new index and every updateExchange that       *)
(* succeeds emits an ExchangeUpdated notification for the updated index;   *)
(* a call that fails emits none.                                           *)
C30_RegistryNotifications ==
    /\ [][ Calls("addExchange")
           => IF lastCall'.result = "ok"
              THEN \E n \in 1..Len(events') :
                      /\ events'[n].name = "ExchangeAdded"
                      /\ events'[n].index = Len(exchangeRouters)
              ELSE events' = <<>> ]_vars
    /\ [][ Calls("updateExchange")
           => IF lastCall'.result = "ok"
              THEN \E n \in 1..Len(events'), i \in 0..MaxRegistry :
                      /\ events'[n].name = "ExchangeUpdated"
                      /\ events'[n].index = i
                      /\ UpdatesExchange(i)
              ELSE events' = <<>> ]_vars

(* C31: re-registration refreshes the record.  addArbitragePath by the     *)
(* owner with the tokens and hops of a path already registered, all hops   *)
(* on active exchanges, stores the same tokens and hops under the same key *)
(* with active = true, so that a path switched off before can be started   *)
(* again; the records under all other keys stay as they are.               *)
C31_ReRegistration ==
    [][ Calls("addArbitragePath") => \A p \in PathInputs :
          (addArbitragePath(Owner, p[1], p[2])
             /\ PathKeyOf(p[1], p[2]) \in Range(pathKeys)
             /\ lastCall'.result = "ok")
          => LET k == PathKeyOf(p[1], p[2]) IN
             /\ arbitragePaths'[k].path = arbitragePaths[k].path
             /\ arbitragePaths'[k].exchangeIndexes = arbitragePaths[k].exchangeIndexes
             /\ arbitragePaths'[k] =
                   [path |-> p[1], exchangeIndexes |-> p[2], active |-> TRUE]
             /\ pathError(arbitragePaths'[k]) = ""
             /\ k \in Range(pathKeys')
             /\ \A other \in KeySpace \ {k} :
                   arbitragePaths'[other] = arbitragePaths[other] ]_vars

(* a path taken out of service has been registered again and a cycle on    *)
(* it has been opened                                                      *)
C31_Witness ==
    /\ Len(pathKeys) = 2
    /\ pathKeys[1] = pathKeys[2]
    /\ arbitragePaths[pathKeys[1]].active
    /\ ~Idle
    /\ Top.pathKey = pathKeys[1]

(* C32: exchange references are resolved when the cycle runs.  A           *)
(* startArbitrage by the owner on a registered active path is not rejected *)
(* because an exchange of the path has been switched off, and each hop is  *)
(* sent to the router address stored at its exchange index at that moment, *)
(* whatever the address was when the path was registered.                  *)
C32_ExecutionTimeResolution ==
    /\ [][ (Idle /\ Calls("startArbitrage")) => \A k \in KeyInputs, a \in Amounts :
             (startArbitrage(Owner, k, a) /\ k \in Range(pathKeys)
                /\ arbitragePaths[k].active
                /\ \E i \in Range(arbitragePaths[k].exchangeIndexes) :
                      ~exchangeRouters[i + 1].active)
             => /\ lastCall'.result = "pending"
                /\ Len(frames') = 1 ]_vars
    /\ [][ (SameCycle /\ Top.pc = "SwapChainRunning" /\ TopAfter.pc = "InVenue")
           => LET index == arbitragePaths[Top.pathKey].exchangeIndexes[Top.hop + 1] IN
              /\ TopAfter.router = exchangeRouters[index + 1].routerAddress
              /\ allowances'[exchangeRouters[index + 1].routerAddress]
                            [arbitragePaths[Top.pathKey].path[Top.hop + 1]]
                    = TopAfter.amountIn ]_vars

(* a swap is with routerB, the address an update wrote to the index after  *)
(* the exchange was added, and the exchange is switched off                *)
C32_Witness ==
    /\ ~Idle
    /\ Top.pc = "InVenue"
    /\ Top.router = "routerB"
    /\ exchangeRouters[1] = [routerAddress |-> "routerB", name |-> "ExchangeB",
                             active |-> FALSE]

(* C33: estimator result.  For every registered active path and every      *)
(* amount simulateArbitrage returns amount / 100 rounded down, whatever the *)
(* path, the registry and the balances are, and so a positive value for     *)
(* every amount of 100 or more.                                             *)
C33_EstimatorResult ==
    [][ Calls("simulateArbitrage") =>
          \A c \in Callers, k \in KeyInputs, a \in SimAmounts :
             (simulateArbitrage(c, k, a) /\ k \in Range(pathKeys)
                /\ arbitragePaths[k].active)
             => /\ lastCall' = ReturnsValue("simulateArbitrage", "ok", a \div 100)
                /\ a >= 100 => lastCall'.value > 0 ]_vars

(* the key the script is working on *)
MonitoredKey == monitor.keys[monitor.index]

(* C34: monitor gating.  In each round of the monitoring loop the script   *)
(* calls startArbitrage(pathKey, loanAmount) for a path only after, in     *)
(* that round, getArbitragePath reported the path active and               *)
(* simulateArbitrage with the same key and amount returned a value above   *)
(* 0; a path read as inactive or estimated at 0 is passed over.            *)
C34_MonitorGating ==
    /\ [](monitor.pc \in {"start", "wait"}
             => monitor.active /\ monitor.expectedProfit > 0)
    /\ [][ (monitor.pc = "read" /\ monitor'.pc = "simulate")
           => /\ getArbitragePath(MonitoredKey)[3]
              /\ monitor'.active
              /\ monitor'.index = monitor.index
              /\ monitor'.keys = monitor.keys ]_vars
    /\ [][ (monitor.pc = "simulate" /\ monitor'.pc = "start")
           => /\ simulateArbitrage(Owner, MonitoredKey, monitor.loanAmount)
              /\ lastCall'.result = "ok"
              /\ lastCall'.value > 0
              /\ monitor'.expectedProfit = lastCall'.value
              /\ monitor'.loanAmount = monitor.loanAmount
              /\ monitor'.index = monitor.index
              /\ monitor'.keys = monitor.keys ]_vars
    /\ [][ (monitor.pc = "start" /\ monitor' # monitor)
           => /\ monitor'.pc = "wait"
              /\ startArbitrage(Owner, MonitoredKey, monitor.loanAmount) ]_vars
    /\ [][ (Idle /\ Calls("startArbitrage") /\ engineVars' # engineVars)
           => /\ monitor.pc = "start"
              /\ startArbitrage(Owner, MonitoredKey, monitor.loanAmount) ]_vars
    /\ [][ (monitor.pc = "read" /\ monitor.index <= Len(monitor.keys)
              /\ ~getArbitragePath(MonitoredKey)[3] /\ monitor' # monitor)
           => monitor'.pc = "read" /\ monitor'.index = monitor.index + 1 ]_vars

(* the script has opened a cycle on a path it read as active and whose     *)
(* estimate for the loan amount was positive                               *)
C34_Witness ==
    /\ monitor.pc = "wait"
    /\ ~Idle
    /\ Top.pathKey = MonitoredKey
    /\ Top.amount = monitor.loanAmount
    /\ monitor.active
    /\ monitor.expectedProfit = expectedProfit(monitor.loanAmount)
    /\ monitor.expectedProfit > 0

(* the step is a startArbitrage call returning with success *)
CycleSucceeds == CycleEnds /\ lastCall'.result = "ok"

(* C35: funds of the borrowed asset held before a cycle are not lost by a  *)
(* cycle that succeeds.  After every successful startArbitrage the         *)
(* engine's balance of the borrowed asset, the lender paid, is at least    *)
(* its balance just before the call.                                       *)
C35_BorrowedAssetKept ==
    [][ CycleSucceeds
        => balances'[Top.asset] >= Top.snapshot.balances[Top.asset] ]_vars

(* C36: funds of the intermediate tokens held before a cycle are not used  *)
(* up by it.  After every successful startArbitrage the engine's balance   *)
(* of every token of the path other than the borrowed asset is at least    *)
(* its balance before the cycle.                                           *)
C36_IntermediateTokensKept ==
    [][ CycleSucceeds
        => \A t \in Range(arbitragePaths[Top.pathKey].path) \ {Top.asset} :
              balances'[t] >= Top.snapshot.balances[t] ]_vars

(* the route does not end on the token it starts from *)
IsOpen(path) == Len(path.path) >= 2 /\ path.path[Len(path.path)] # path.path[1]

(* C37: open paths cannot settle.  addArbitragePath accepts a path whose   *)
(* last token is not its first, and no startArbitrage on such a path with  *)
(* a debt above 0 succeeds: when the last swap has returned, the engine's  *)
(* balance of the borrowed asset is 0 and the call fails with "Arbitrage   *)
(* did not yield profit".                                                  *)
C37_OpenPathsCannotSettle ==
    /\ [][ Calls("addArbitragePath") => \A p \in PathInputs :
             (addArbitragePath(Owner, p[1], p[2]) /\ ~BadPath(p[1], p[2])
                /\ p[1][Len(p[1])] # p[1][1])
             => /\ lastCall'.result = "ok"
                /\ IsOpen(arbitragePaths'[PathKeyOf(p[1], p[2])]) ]_vars
    /\ [](\A i \in 1..Len(frames) :
             (IsOpen(arbitragePaths[frames[i].pathKey])
                /\ frames[i].amount + frames[i].premium > 0)
             => /\ frames[i].pc # "Settling"
                /\ (frames[i].pc = "SwapChainRunning"
                      /\ frames[i].hop = HopCount(frames[i]))
                   => balances[frames[i].asset] = 0)
    /\ [][ (CycleEnds /\ IsOpen(arbitragePaths[Top.pathKey])
              /\ Top.amount + Top.premium > 0)
           => /\ Failed(lastCall'.result)
              /\ (Top.pc = "SwapChainRunning" /\ Top.hop = HopCount(Top))
                 => lastCall'.result = ErrNoProfit ]_vars

(* the only swap of an open path has returned while the engine held funds  *)
(* of the borrowed asset before the cycle: all of it is gone and the debt  *)
(* check is about to fail                                                  *)
C37_Witness ==
    /\ ~Idle
    /\ IsOpen(arbitragePaths[Top.pathKey])
    /\ Top.pc = "SwapChainRunning"
    /\ Top.hop = HopCount(Top)
    /\ Top.snapshot.balances[Top.asset] > 0
    /\ balances[Top.asset] = 0

(* C38: path registry well-formedness.  In every reachable state every key *)
(* of the key list maps to a record with at least two tokens, one hop less *)
(* than tokens and every hop index below the exchange count, and every key *)
(* whose record has tokens is in the key list.                             *)
C38_RegistryWellFormed ==
    /\ \A i \in 1..Len(pathKeys) :
          LET record == arbitragePaths[pathKeys[i]] IN
          /\ Len(record.path) >= 2
          /\ Len(record.exchangeIndexes) = Len(record.path) - 1
          /\ \A h \in 1..Len(record.exchangeIndexes) :
                record.exchangeIndexes[h] < getExchangeCount
    /\ \A k \in KeySpace :
          Len(arbitragePaths[k].path) > 0 => k \in Range(pathKeys)

(* two different paths are registered, one of them switched off *)
C38_Witness ==
    /\ Len(pathKeys) = 2
    /\ pathKeys[1] # pathKeys[2]
    /\ ~arbitragePaths[pathKeys[1]].active
    /\ arbitragePaths[pathKeys[2]].active

(* C39: no withdrawal during a cycle.  While a startArbitrage call is in   *)
(* flight every withdraw fails, whoever calls it, the owner calling from   *)
(* inside the lender's or a venue's call included: nothing is sent to the  *)
(* owner in the middle of a cycle.                                         *)
C39_NoWithdrawalInCycle ==
    /\ [][ (~Idle /\ Calls("withdraw")) => \A c \in Callers, t \in Tokens :
             withdraw(c, t)
             => /\ lastCall'.result = IF c = Owner THEN ErrReentrant ELSE ErrNotOwner
                /\ UNCHANGED <<balances, ownerReceived, allowances, events,
                               status, frames>> ]_vars
    /\ [](~Idle => ownerReceived = NoneReceived)
    /\ [][ ~Idle => ownerReceived' = NoneReceived ]_vars

(* the owner's withdraw, made from inside a venue's call while the engine  *)
(* held the borrowed funds, has been refused                               *)
C39_Witness ==
    /\ ~Idle
    /\ Top.pc = "InVenue"
    /\ lastCall = Returns("withdraw", ErrReentrant)
    /\ balances[Top.asset] > 0
    /\ ownerReceived = NoneReceived

====
